---- MODULE Spec2Model ----
(***************************************************************************)
(* Model of the retrieval-and-filtering pipeline of the food recommender:  *)
(*   src/main/utils.py  relevance_checker, dish_summary,                   *)
(*                      recommend_dishes_by_preference, assistant          *)
(*   src/main/app.py    the "run search + display results" block           *)
(* Three specifications:                                                   *)
(*   Spec           one request through app.py (search, filter, display)   *)
(*   SpecRelevance  relevance_checker applied to one model response        *)
(*   SpecAssistant  assistant applied to one raw model output              *)
(***************************************************************************)
EXTENDS Integers, Sequences, FiniteSets, TLC

VARIABLES pc, results, idx, relevant_images, responses, count,
          relLog, sumLog, descCalls, outcome, shown, dpos,
          rcPc, rcContent, rcResult,
          asPc, asContent, asResult

pipeVars == <<pc, results, idx, relevant_images, responses, count,
              relLog, sumLog, descCalls, outcome, shown, dpos>>
rcVars == <<rcPc, rcContent, rcResult>>
asVars == <<asPc, asContent, asResult>>
vars == <<pipeVars, rcVars, asVars>>

(***************************************************************************)
(* Bounds and program constants                                            *)
(***************************************************************************)
\* longest language-model answer (in characters) given to relevance_checker
MaxAnsLen == 3
\* longest raw output (in tokens) enumerated exhaustively for assistant
MaxRawLen == 3
\* the cap of the filter loop: "if count == 3: break"
Cap == 3
\* similarity_search(query, k=5)
K == 5

(***************************************************************************)
(* Text: a string is a sequence of characters                              *)
(***************************************************************************)
Whitespace == {" ", "\n", "\t"}
AnsChars == {" ", "y", "Y", "n"}

RECURSIVE SeqsUpTo(_, _)
SeqsUpTo(S, n) ==
  IF n = 0 THEN {<<>>}
  ELSE LET shorter == SeqsUpTo(S, n - 1)
       IN  shorter \cup {Append(s, c) : s \in {t \in shorter : Len(t) = n - 1}, c \in S}

\* what the language model may answer to the yes/no question
Answers == SeqsUpTo(AnsChars, MaxAnsLen)

RECURSIVE LStrip(_)
LStrip(s) ==
  IF s = <<>> THEN s
  ELSE IF Head(s) \in Whitespace THEN LStrip(Tail(s)) ELSE s

RECURSIVE RStrip(_)
RStrip(s) ==
  IF s = <<>> THEN s
  ELSE IF s[Len(s)] \in Whitespace THEN RStrip(SubSeq(s, 1, Len(s) - 1)) ELSE s

\* str.strip()
Strip(s) == RStrip(LStrip(s))

LowerChar(c) == IF c = "Y" THEN "y" ELSE IF c = "N" THEN "n" ELSE c

\* str.lower()
Lower(s) == [i \in 1..Len(s) |-> LowerChar(s[i])]

\* str.startswith(p)
StartsWith(s, p) == Len(s) >= Len(p) /\ SubSeq(s, 1, Len(p)) = p

relevance_checker_nolower(content) ==
  LET ans == Strip(content)
  IN  IF StartsWith(ans, <<"y">>) THEN "Yes" ELSE "No"

\* utils.py relevance_checker: the parse of response.content
relevance_checker(content) ==
  LET ans == Lower(Strip(content))
  IN  IF StartsWith(ans, <<"y">>) THEN "Yes" ELSE "No"

(***************************************************************************)
(* Candidates and the ordered mapping                                      *)
(***************************************************************************)
\* values of metadata.get("image_path"); "None" is the absent field
ImagePaths == {"None", "a.jpg", "b.jpg"}

\* the i-th document of a retrieval that assigned image paths by paths
Doc(paths, i) ==
  [page_content |-> i, metadata |-> [image_path |-> paths[i], menu_item |-> i]]

\* what db.similarity_search(query, k=5) may return: up to K distinct records
SearchResults ==
  UNION {{[i \in 1..n |-> Doc(paths, i)] : paths \in [1..n -> ImagePaths]} : n \in 0..K}

HasKey(d, k) == \E i \in 1..Len(d) : d[i].key = k

DictSetAppend(d, k, v) == Append(d, [key |-> k, value |-> v])

\* d[k] = v on an insertion-ordered dict: an existing key keeps its position
DictSet(d, k, v) ==
  IF HasKey(d, k)
  THEN [i \in 1..Len(d) |-> IF d[i].key = k THEN [key |-> k, value |-> v] ELSE d[i]]
  ELSE Append(d, [key |-> k, value |-> v])

\* dish_summary(doc.page_content, ...): the summary written for that document
dish_summary(page_content) == [of |-> page_content]

ListPrepend(l, x) == <<x>> \o l

\* responses.append(x)
ListAppend(l, x) == Append(l, x)

CountReachedNever(c) == FALSE

CountReachedLate(c) == c > Cap

\* "if count == 3: break"
CountReached(c) == c = Cap

NotResultsNever(r) == FALSE

\* "if not results"
NotResults(r) == Len(r) = 0

NotRecsNever(r) == FALSE

\* "if not recs"
NotRecs(r) == Len(r) = 0

(***************************************************************************)
(* Spec: one request through app.py                                        *)
(***************************************************************************)
PipeInit ==
  /\ pc = "start"
  /\ results = <<>>
  /\ idx = 0
  /\ relevant_images = <<>>
  /\ responses = <<>>
  /\ count = 0
  /\ relLog = <<>>
  /\ sumLog = <<>>
  /\ descCalls = 0
  /\ outcome = "none"
  /\ shown = <<>>
  /\ dpos = 0

RcIdle == rcPc = "off" /\ rcContent = <<>> /\ rcResult = "unset"
AsIdle ==
  asPc = "off" /\ asContent = <<>> /\ asResult = [kind |-> "unset", str |-> <<>>, items |-> <<>>]

Init == PipeInit /\ RcIdle /\ AsIdle

\* app.py 237, 310-311: nothing to do, the hint is shown
Idle ==
  /\ pc = "start"
  /\ \E run \in BOOLEAN, hasText \in BOOLEAN, uploaded \in BOOLEAN :
       /\ ~(run /\ (hasText \/ uploaded))
       /\ pc' = "idle"
       /\ outcome' = "info"
  /\ UNCHANGED <<rcVars, asVars, results, idx, relevant_images, responses, count,
                 relLog, sumLog, descCalls, shown, dpos>>

\* app.py 237-247: a text query without an image
SubmitText ==
  /\ pc = "start"
  /\ pc' = "search"
  /\ UNCHANGED <<rcVars, asVars, results, idx, relevant_images, responses, count,
                 relLog, sumLog, descCalls, outcome, shown, dpos>>

\* app.py 241-247: an uploaded image is described by the model first
SubmitImage ==
  /\ pc = "start"
  /\ descCalls' = descCalls + 1
  /\ pc' = "search"
  /\ UNCHANGED <<rcVars, asVars, results, idx, relevant_images, responses, count,
                 relLog, sumLog, outcome, shown, dpos>>

\* app.py 250: results = db.similarity_search(query, k=5)
Search ==
  /\ pc = "search"
  /\ results' \in SearchResults
  /\ pc' = "searched"
  /\ UNCHANGED <<rcVars, asVars, idx, relevant_images, responses, count,
                 relLog, sumLog, descCalls, outcome, shown, dpos>>

\* app.py 254-255: st.warning("No dishes found.")
NoDishes ==
  /\ pc = "searched"
  /\ NotResults(results)
  /\ outcome' = "no_dishes"
  /\ pc' = "done"
  /\ UNCHANGED <<rcVars, asVars, results, idx, relevant_images, responses, count,
                 relLog, sumLog, descCalls, shown, dpos>>

\* app.py 257, utils.py 164-166: the call, and the function's locals
CallRecommend ==
  /\ pc = "searched"
  /\ ~NotResults(results)
  /\ relevant_images' = <<>>
  /\ responses' = <<>>
  /\ count' = 0
  /\ idx' = 1
  /\ pc' = IF Len(results) = 0 THEN "returned" ELSE "loop"
  /\ UNCHANGED <<rcVars, asVars, results, relLog, sumLog, descCalls, outcome, shown, dpos>>

\* utils.py 168-178: one iteration of "for doc in search_results"
LoopStep ==
  /\ pc = "loop"
  /\ \E content \in Answers :
       LET doc == results[idx]
           relevant == relevance_checker(content)
           yes == relevant = "Yes"
           count1 == IF yes THEN count + 1 ELSE count
       IN  /\ relLog' = Append(relLog, [doc |-> doc.page_content, relevant |-> relevant])
           /\ IF yes
              THEN /\ relevant_images' =
                        DictSet(relevant_images, doc.metadata.image_path, doc.metadata)
                   /\ responses' = ListAppend(responses, dish_summary(doc.page_content))
                   /\ sumLog' = Append(sumLog, doc.page_content)
              ELSE UNCHANGED <<relevant_images, responses, sumLog>>
           /\ count' = count1
           /\ IF CountReached(count1) \/ idx = Len(results)
              THEN pc' = "returned" /\ idx' = idx
              ELSE pc' = "loop" /\ idx' = idx + 1
  /\ UNCHANGED <<rcVars, asVars, results, descCalls, outcome, shown, dpos>>

\* app.py 259-260: the warning that nothing passed the filter
NonePassed ==
  /\ pc = "returned"
  /\ NotRecs(responses)
  /\ outcome' = "none_passed"
  /\ pc' = "done"
  /\ UNCHANGED <<rcVars, asVars, results, idx, relevant_images, responses, count,
                 relLog, sumLog, descCalls, shown, dpos>>

\* app.py 261-262: enter "for i, rec in enumerate(recs)"
StartDisplay ==
  /\ pc = "returned"
  /\ ~NotRecs(responses)
  /\ dpos' = 1
  /\ pc' = IF Len(responses) = 0 THEN "done" ELSE "display"
  /\ UNCHANGED <<rcVars, asVars, results, idx, relevant_images, responses, count,
                 relLog, sumLog, descCalls, outcome, shown>>

\* app.py 262-308: one card; list(images.keys())[i] raises IndexError
\* when the mapping has fewer keys than there are recommendations
DisplayStep ==
  /\ pc = "display"
  /\ IF dpos > Len(relevant_images)
     THEN /\ outcome' = "IndexError"
          /\ pc' = "done"
          /\ UNCHANGED <<shown, dpos>>
     ELSE /\ shown' = Append(shown, [rec |-> responses[dpos],
                                     image_path |-> relevant_images[dpos].key,
                                     meta |-> relevant_images[dpos].value])
          /\ IF dpos = Len(responses)
             THEN outcome' = "shown" /\ pc' = "done" /\ dpos' = dpos
             ELSE outcome' = outcome /\ pc' = "display" /\ dpos' = dpos + 1
  /\ UNCHANGED <<rcVars, asVars, results, idx, relevant_images, responses, count,
                 relLog, sumLog, descCalls>>

Next ==
  \/ Idle
  \/ SubmitText
  \/ SubmitImage
  \/ Search
  \/ NoDishes
  \/ CallRecommend
  \/ LoopStep
  \/ NonePassed
  \/ StartDisplay
  \/ DisplayStep

Spec == Init /\ [][Next]_vars

(***************************************************************************)
(* SpecRelevance: relevance_checker on one response of the model           *)
(***************************************************************************)
InitRelevance ==
  /\ PipeInit
  /\ AsIdle
  /\ rcPc = "call"
  /\ rcContent \in Answers
  /\ rcResult = "unset"

\* utils.py 124-126
RelevanceCall ==
  /\ rcPc = "call"
  /\ rcResult' = relevance_checker(rcContent)
  /\ rcPc' = "done"
  /\ UNCHANGED <<rcContent, pipeVars, asVars>>

NextRelevance == RelevanceCall

SpecRelevance == InitRelevance /\ [][NextRelevance]_vars

(***************************************************************************)
(* SpecAssistant: assistant on one raw output of the model                 *)
(*                                                                         *)
(* A raw output is a sequence of characters in which a string literal, a   *)
(* bare word and NaN each count as one character; "1" is a digit.          *)
(***************************************************************************)
StringToks == {"\"recommendation\"", "\"response\"", "\"yes\"", "\"x\""}
RawToks == {" ", "{", "}", "[", "]", ":", ",", "1", "NaN", "word"} \cup StringToks

\* the text between the quotes of a string literal
Unquote(t) ==
  CASE t = "\"recommendation\"" -> <<"recommendation">>
    [] t = "\"response\"" -> <<"response">>
    [] t = "\"yes\"" -> <<"yes">>
    [] OTHER -> <<"x">>

\* Python values: every value has a kind, a text and a sequence of items
StrVal(text) == [kind |-> "str", str |-> text, items |-> <<>>]
NumVal(digits) == [kind |-> "int", str |-> digits, items |-> <<>>]
NanVal == [kind |-> "float", str |-> <<"nan">>, items |-> <<>>]
ListVal(l) == [kind |-> "list", str |-> <<>>, items |-> l]
DictVal(d) == [kind |-> "dict", str |-> <<>>, items |-> d]
NoVal == [kind |-> "unset", str |-> <<>>, items |-> <<>>]

Fail == [ok |-> FALSE, val |-> NoVal, rest |-> <<>>]
Parsed(v, rest) == [ok |-> TRUE, val |-> v, rest |-> rest]

RECURSIVE Digits(_)
Digits(s) ==
  IF s # <<>> /\ Head(s) = "1" THEN <<"1">> \o Digits(Tail(s)) ELSE <<>>

RECURSIVE ParseValue(_)
RECURSIVE ParseMembers(_, _)
RECURSIVE ParseElements(_, _)

\* json.decoder: one member "key": value of an object, then "," or "}"
ParseMembers(s0, acc) ==
  LET s1 == LStrip(s0)
  IN  IF s1 = <<>> \/ Head(s1) \notin StringToks THEN Fail
      ELSE LET key == Unquote(Head(s1))
               s2 == LStrip(Tail(s1))
           IN  IF s2 = <<>> \/ Head(s2) # ":" THEN Fail
               ELSE LET v == ParseValue(Tail(s2))
                        s3 == LStrip(v.rest)
                        acc1 == DictSet(acc, key, v.val)
                    IN  IF ~v.ok \/ s3 = <<>> THEN Fail
                        ELSE IF Head(s3) = "}" THEN Parsed(DictVal(acc1), Tail(s3))
                        ELSE IF Head(s3) = "," THEN ParseMembers(Tail(s3), acc1)
                        ELSE Fail

\* json.decoder: one element of an array, then "," or "]"
ParseElements(s0, acc) ==
  LET v == ParseValue(s0)
      s1 == LStrip(v.rest)
      acc1 == Append(acc, v.val)
  IN  IF ~v.ok \/ s1 = <<>> THEN Fail
      ELSE IF Head(s1) = "]" THEN Parsed(ListVal(acc1), Tail(s1))
      ELSE IF Head(s1) = "," THEN ParseElements(Tail(s1), acc1)
      ELSE Fail

\* json.scanner: one value, after optional whitespace
ParseValue(s0) ==
  LET s == LStrip(s0)
  IN  IF s = <<>> THEN Fail
      ELSE LET c == Head(s)
               after == LStrip(Tail(s))
           IN  IF c \in StringToks THEN Parsed(StrVal(Unquote(c)), Tail(s))
               ELSE IF c = "1" THEN Parsed(NumVal(Digits(s)), SubSeq(s, Len(Digits(s)) + 1, Len(s)))
               ELSE IF c = "NaN" THEN Parsed(NanVal, Tail(s))
               ELSE IF c = "{"
                    THEN IF after # <<>> /\ Head(after) = "}"
                         THEN Parsed(DictVal(<<>>), Tail(after))
                         ELSE ParseMembers(Tail(s), <<>>)
               ELSE IF c = "["
                    THEN IF after # <<>> /\ Head(after) = "]"
                         THEN Parsed(ListVal(<<>>), Tail(after))
                         ELSE ParseElements(Tail(s), <<>>)
               ELSE Fail

\* json.loads(s): one value and nothing but whitespace after it
json_loads(s) ==
  LET r == ParseValue(s)
  IN  IF r.ok /\ LStrip(r.rest) = <<>> THEN r ELSE Fail

\* the dict of the except branch
Fallback(text) ==
  DictVal(<<[key |-> <<"recommendation">>, value |-> StrVal(<<"no">>)],
            [key |-> <<"response">>, value |-> StrVal(text)]>>)

assistant_nostrip(content) ==
  LET r == json_loads(content)
  IN  IF r.ok THEN r.val ELSE Fallback(content)

\* utils.py assistant: what it returns for the model's output content
assistant(content) ==
  LET raw == Strip(content)
      r == json_loads(raw)
  IN  IF r.ok THEN r.val ELSE Fallback(raw)

\* outputs longer than MaxRawLen: the requested object and near misses
SchemaOutputs ==
  { <<"{", "\"recommendation\"", ":", "\"yes\"", ",", "\"response\"", ":", "\"x\"", "}">>,
    <<" ", "{", "\"recommendation\"", ":", "\"yes\"", ",", " ", "\"response\"", ":", "\"x\"", "}", " ">>,
    <<"{", "\"recommendation\"", ":", "\"x\"", ",", "\"response\"", ":", "\"x\"", "}">>,
    <<"{", "\"recommendation\"", ":", "\"yes\"", ",", "\"response\"", ":", "1", "}">>,
    <<"{", "\"recommendation\"", ":", "\"yes\"", ",", "\"response\"", ":", "\"x\"", ",", "\"x\"", ":", "1", "}">>,
    <<"{", "\"recommendation\"", ":", "\"yes\"", ",", "\"recommendation\"", ":", "\"x\"", "}">>,
    <<"{", "\"recommendation\"", ":", "\"yes\"", "}">>,
    <<"{", "\"recommendation\"", ":", "\"yes\"", ",", "\"response\"", ":", "\"x\"">>,
    <<"{", "\"recommendation\"", ":", "\"yes\"", ",", "\"response\"", ":", "\"x\"", ",", "}">>,
    <<"word", " ", "{", "\"recommendation\"", ":", "\"yes\"", ",", "\"response\"", ":", "\"x\"", "}">>,
    <<" ", "word", ":", " ", "\"yes\"", " ">>,
    <<"[", "{", "\"response\"", ":", "[", "1", ",", "NaN", "]", "}", "]">> }

\* what the model may put out
RawOutputs == SeqsUpTo(RawToks, MaxRawLen) \cup SchemaOutputs

InitAssistant ==
  /\ PipeInit
  /\ RcIdle
  /\ asPc = "call"
  /\ asContent \in RawOutputs
  /\ asResult = NoVal

\* utils.py 216-221
AssistantCall ==
  /\ asPc = "call"
  /\ asResult' = assistant(asContent)
  /\ asPc' = "done"
  /\ UNCHANGED <<asContent, pipeVars, rcVars>>

NextAssistant == AssistantCall

SpecAssistant == InitAssistant /\ [][NextAssistant]_vars

(***************************************************************************)
(* Properties of the pipeline (Spec)                                       *)
(***************************************************************************)
\* positions of the relevance calls that answered Yes
YesCalls == {i \in 1..Len(relLog) : relLog[i].relevant = "Yes"}

\* the accepted documents, in the order their relevance calls were made
AcceptedDocs ==
  LET yesOnly == SelectSeq(relLog, LAMBDA e : e.relevant = "Yes")
  IN  [i \in 1..Len(yesOnly) |-> yesOnly[i].doc]

LoopOver == pc \in {"returned", "display", "done"} /\ outcome # "no_dishes"

C2_ParallelMapping ==
  /\ LoopOver =>
       /\ Len(relevant_images) = Len(responses)
       /\ \A i \in 1..Len(responses) :
            relevant_images[i].value.menu_item = responses[i].of
  /\ outcome # "IndexError"
  /\ \A i \in 1..Len(shown) : shown[i].meta.menu_item = shown[i].rec.of

\* C3: the recommendations are exactly the summaries of the accepted
\* candidates, one each, in retrieval order, and there are at most 3.
C3_RetrievalOrder ==
  /\ Len(responses) = Len(AcceptedDocs)
  /\ \A i \in 1..Len(responses) : responses[i] = dish_summary(AcceptedDocs[i])
  /\ \A i, j \in 1..Len(responses) : i < j => responses[i].of < responses[j].of
  /\ LoopOver =>
       Len(responses) = IF Cardinality(YesCalls) < 3 THEN Cardinality(YesCalls) ELSE 3

\* C3 witness: a rejected candidate lies between two accepted ones
C3_Witness ==
  /\ pc = "returned"
  /\ Len(responses) >= 2
  /\ \E i \in 1..Len(relLog) :
       /\ relLog[i].relevant = "No"
       /\ responses[1].of < i
       /\ i < responses[Len(responses)].of

\* C4: candidates are checked one at a time in retrieval order, none twice,
\* none after the third acceptance; the loop makes as many relevance calls
\* as the position of the third accepted candidate, or one per candidate
\* when fewer than 3 are accepted (5 passing candidates: 3 calls).
C4_EarlyStop ==
  /\ \A i \in 1..Len(relLog) :
       /\ relLog[i].doc = results[i].page_content
       /\ Cardinality({j \in YesCalls : j < i}) < 3
  /\ LoopOver =>
       IF Cardinality(YesCalls) >= 3
       THEN Len(relLog) \in YesCalls /\ Cardinality(YesCalls) = 3
       ELSE Len(relLog) = Len(results)
  /\ (LoopOver /\ Len(results) = 5 /\ YesCalls = 1..Len(relLog)) => Len(relLog) = 3

\* C4 witness: Scenario A, five candidates that all pass
C4_Witness ==
  /\ pc = "returned"
  /\ Len(results) = 5
  /\ Len(relLog) = 3
  /\ YesCalls = {1, 2, 3}

\* C5: an empty similarity search ends in "No dishes found." with no
\* recommendation, no relevance call and no summary call.
C5_EmptyRetrieval ==
  (pc = "done" /\ results = <<>>) =>
     /\ outcome = "no_dishes"
     /\ responses = <<>>
     /\ relLog = <<>>
     /\ sumLog = <<>>

\* C5 witness: the request ended on an empty retrieval
C5_Witness == pc = "done" /\ results = <<>> /\ outcome = "no_dishes"

\* C6: a non-empty retrieval of which nothing is accepted gives an empty
\* recommendation list, one relevance call per candidate, no summary call,
\* and the "none passed" warning, which is never given together with or
\* instead of "No dishes found.".
C6_NonePassed ==
  /\ (pc = "done" /\ results # <<>> /\ YesCalls = {}) =>
        /\ responses = <<>>
        /\ relevant_images = <<>>
        /\ Len(relLog) = Len(results)
        /\ \A i \in 1..Len(results) : relLog[i].doc = results[i].page_content
        /\ sumLog = <<>>
        /\ outcome = "none_passed"
  /\ outcome = "none_passed" => results # <<>>
  /\ outcome = "no_dishes" => results = <<>>

\* C6 witness: Scenario B, two candidates, both rejected
C6_Witness ==
  /\ pc = "done"
  /\ Len(results) = 2
  /\ Len(relLog) = 2
  /\ YesCalls = {}
  /\ outcome = "none_passed"

\* the accepted candidates that carry image path k
AcceptedWith(k) == {i \in YesCalls : results[i].metadata.image_path = k}

SetMax(S) == CHOOSE m \in S : \A x \in S : x <= m

\* C7: accepted candidates that share an image path leave one entry for
\* that path in the mapping, and it holds the metadata of the latest one.
C7_KeyCollision ==
  \A k \in ImagePaths :
     AcceptedWith(k) # {} =>
        /\ Cardinality({i \in 1..Len(relevant_images) : relevant_images[i].key = k}) = 1
        /\ \A i \in 1..Len(relevant_images) :
             relevant_images[i].key = k =>
                relevant_images[i].value = results[SetMax(AcceptedWith(k))].metadata

\* C7 witness: Scenario D, two accepted candidates with the same image path
C7_Witness ==
  /\ pc = "returned"
  /\ \E k \in ImagePaths : Cardinality(AcceptedWith(k)) >= 2
  /\ Len(relevant_images) < Len(responses)

(***************************************************************************)
(* Properties of relevance_checker (SpecRelevance)                         *)
(***************************************************************************)
\* the first character that is not whitespace is a y or a Y
FirstVisibleIsY(s) ==
  \E i \in 1..Len(s) :
     /\ s[i] \in {"y", "Y"}
     /\ \A j \in 1..(i - 1) : s[j] \in Whitespace

\* C8: the answer is Yes exactly when the response, trimmed and lowercased,
\* starts with y; anything else is No; there is no third result.
C8_RelevanceParse ==
  rcPc = "done" =>
     /\ rcResult \in {"Yes", "No"}
     /\ rcResult = "Yes" <=> FirstVisibleIsY(rcContent)

\* C8 witness: an upper-case Y after leading whitespace was accepted
C8_Witness ==
  /\ rcPc = "done"
  /\ Len(rcContent) >= 2
  /\ rcContent[1] = " "
  /\ rcContent[2] = "Y"
  /\ rcResult = "Yes"

(***************************************************************************)
(* Properties of assistant (SpecAssistant)                                 *)
(***************************************************************************)
\* the decoder rejects the output
Undecodable(s) == ~json_loads(s).ok

\* s is text between two runs of whitespace, and text has none at its ends
TrimmedOf(s, text) ==
  /\ text = <<>> \/ (text[1] \notin Whitespace /\ text[Len(text)] \notin Whitespace)
  /\ \E i \in 0..Len(s) :
       /\ i + Len(text) <= Len(s)
       /\ SubSeq(s, i + 1, i + Len(text)) = text
       /\ \A j \in (1..i) \cup ((i + Len(text) + 1)..Len(s)) : s[j] \in Whitespace

IsFallback(v) ==
  /\ v.kind = "dict"
  /\ Len(v.items) = 2
  /\ v.items[1].key = <<"recommendation">>
  /\ v.items[1].value = StrVal(<<"no">>)
  /\ v.items[2].key = <<"response">>
  /\ v.items[2].value.kind = "str"

C10_AlwaysSchema ==
  asPc = "done" =>
     /\ asResult.kind = "dict"
     /\ {asResult.items[i].key : i \in 1..Len(asResult.items)}
           = {<<"recommendation">>, <<"response">>}
     /\ \A i \in 1..Len(asResult.items) :
          /\ asResult.items[i].value.kind = "str"
          /\ asResult.items[i].key = <<"recommendation">> =>
                asResult.items[i].value.str \in {<<"yes">>, <<"no">>}

====
